---- MODULE Spec2Model ----
(***************************************************************************)
(* A model of the Gurney web-browsing agent: the run loop of run_agent    *)
(* (src/gurney.py), the conversation controller (WebAgent._chat and       *)
(* WebAgent._parse_action), the action executor (execute_action) and the  *)
(* /run endpoint that wraps one run (src/api.py); the target resolver and *)
(* the executor of src/browser.py.                                        *)
(*                                                                         *)
(* Spec is one run of run_agent behind /run (FairSpec adds that every     *)
(* await completes), ToolSpec is the parser, the resolver, the snapshot   *)
(* truncation and the two executors called directly on samples of their   *)
(* inputs, ConcSpec is several runs interleaving on one event loop, and    *)
(* SlackSpec is the Slack bot handling one request (src/slack).           *)
(*                                                                         *)
(* Text is modelled as a sequence of chunks (strings); a model reply is a *)
(* sequence of lexical tokens, so that parsing is computed the way the    *)
(* code computes it (a strict decode, then the greedy brace match).       *)
(* A Python value that may be None is a sequence of length at most one:   *)
(* NoneV is None and Some(x) is the value x.                              *)
(***************************************************************************)
EXTENDS Integers, Sequences, FiniteSets, TLC

\* ------------------------------------------------------------------ bounds

\* The largest step budget (max_steps) a run is started with.
MaxStepsBound == 3

\* The longest reply (in tokens) of the sample the parser is checked on.
MaxRawLen == 4

\* The most failures of the browser in one run: a snapshot that raises, an
\* action that raises, a browser.close() that raises.
MaxFaults == 1

\* The longest wait (in seconds) of the sample of wait actions.
MaxSeconds == 3

\* The snapshot texts of the direct calls are up to this many characters
\* longer than the limit.
MaxExcess == 2

\* The number of runs that execute concurrently, and the step budget of
\* each of them.
NumRuns == 2
ConcMaxSteps == 2

\* Texts of Slack events are up to MaxTextLen tokens long, and up to
\* MaxSayFaults say calls raise while a request is handled.
MaxTextLen == 2
MaxSayFaults == 2

\* ------------------------------------------------------------ Python values

NoneV == <<>>
Some(x) == <<x>>
IsNone(v) == v = <<>>
Val(v) == v[1]

\* dict.get(key, default) on a JSON object (a record); a stored value is
\* already a NoneV/Some, a missing key yields the default.
Get(d, k, default) == IF k \in DOMAIN d THEN d[k] ELSE default

\* The empty JSON object {}.
EmptyObj == [k \in {} |-> NoneV]

\* A string value of one chunk, and the empty string.
Str(s) == Some(<<s>>)
EmptyStr == Some(<<>>)

\* ------------------------------------------------------------ configuration

\* The value LEARNPF_USERNAME is configured with, when it is configured.
SecretUser == "alice"

\* The placeholder the model is told to use for the username.
UsernameToken == "{{username}}"

\* The fill-type actions of the executor (the spec's Fill).
FillTags == {Str("type"), Str("fill_label"), Str("fill_placeholder")}

\* ------------------------------------------------------------ model replies

\* Lexical tokens of a reply: an opening brace, a closing brace, the
\* members between a pair of braces (a record of the decoded members), a
\* run of brace-free prose, a bare JSON number and a bare JSON null.
LB == [t |-> "lb"]
RB == [t |-> "rb"]
ProseTok == [t |-> "prose"]
NumTok == [t |-> "num"]
NullTok == [t |-> "null"]
Members(o) == [t |-> "members", obj |-> o]

Obj(o) == <<LB, Members(o), RB>>

AnswerHi == [action |-> Str("answer"), text |-> Str("hi")]
AnswerEmpty == [action |-> Str("answer"), text |-> EmptyStr]
AnswerMissing == [action |-> Str("answer")]
AnswerNull == [action |-> Str("answer"), text |-> NoneV]
ClickGo == [action |-> Str("click"), role |-> Str("button"), name |-> Str("Go")]
ClickText == [action |-> Str("click_text"), text |-> Str("Go")]
FillLabel ==
    [action |-> Str("fill_label"), label |-> Str("Username"),
     text |-> Str(UsernameToken)]
FillPlaceholder ==
    [action |-> Str("fill_placeholder"), placeholder |-> Str("Username"),
     text |-> Str(UsernameToken)]
TypeUser ==
    [action |-> Str("type"), role |-> Str("textbox"), name |-> Str("Username"),
     text |-> Str(UsernameToken)]
NavigateTo == [action |-> Str("navigate"), url |-> Str("next")]
ScrollDown == [action |-> Str("scroll"), direction |-> Str("down")]
WaitTwo == [action |-> Str("wait")]
Hover == [action |-> Str("hover")]

\* The replies the language model is drawn from in a run: every Answer
\* shape, a click, a fill with a credential placeholder, an unknown tag,
\* prose, the empty reply, a bare number and an answer wrapped in prose.
RunReplies ==
    { Obj(AnswerHi), Obj(AnswerEmpty), Obj(AnswerMissing), Obj(AnswerNull),
      Obj(ClickGo), Obj(TypeUser), Obj(Hover),
      <<ProseTok>>, <<>>, <<NumTok>>,
      <<ProseTok>> \o Obj(AnswerHi) \o <<ProseTok>> }

\* ----------------------------------------------------------- _parse_action

\* json.loads: the value a token sequence decodes to, or a decode error.
\* kind is "dict" (a JSON object), "none" (JSON null), "other" (any other
\* JSON value) or "error" (json.JSONDecodeError).
JsonLoads(s) ==
    IF Len(s) = 3 /\ s[1] = LB /\ s[2].t = "members" /\ s[3] = RB
    THEN [kind |-> "dict", d |-> s[2].obj]
    ELSE IF s = <<LB, RB>> THEN [kind |-> "dict", d |-> EmptyObj]
    ELSE IF s = <<NullTok>> THEN [kind |-> "none", d |-> EmptyObj]
    ELSE IF s = <<NumTok>> THEN [kind |-> "other", d |-> EmptyObj]
    ELSE [kind |-> "error", d |-> EmptyObj]

\* re.search(r"\{.*\}", text, re.DOTALL): greedy, from the first opening
\* brace to the last closing brace after it; <<>> when there is no match.
BraceMatch(s) ==
    LET opens == {i \in 1..Len(s) : s[i] = LB}
    IN  IF opens = {} THEN <<>>
        ELSE LET first == CHOOSE i \in opens : \A j \in opens : i <= j
                 closes == {i \in 1..Len(s) : s[i] = RB /\ i > first}
             IN  IF closes = {} THEN <<>>
                 ELSE LET last == CHOOSE i \in closes : \A j \in closes : j <= i
                      IN  SubSeq(s, first, last)

ParseNone == [kind |-> "none", d |-> EmptyObj]

\* _parse_action returning an empty dict instead of None when nothing
\* decodes.
ParseActionLenient(text) ==
    LET whole == JsonLoads(text)
    IN  IF whole.kind # "error" THEN whole
        ELSE LET m == BraceMatch(text)
             IN  IF m # <<>> /\ JsonLoads(m).kind # "error"
                 THEN JsonLoads(m)
                 ELSE [kind |-> "dict", d |-> EmptyObj]

\* WebAgent._parse_action: the value handed to the run loop.
ParseAction(text) ==
    LET whole == JsonLoads(text)
    IN  IF whole.kind # "error" THEN whole
        ELSE LET m == BraceMatch(text)
             IN  IF m # <<>> /\ JsonLoads(m).kind # "error"
                 THEN JsonLoads(m)
                 ELSE ParseNone


\* ------------------------------------------------------------------ the page

\* The page after the initial navigation: its URL and the value of its text
\* field, both as text.
InitPage == [url |-> <<"start">>, field |-> <<>>]

\* page.accessibility.snapshot() followed by format_a11y_tree: the tree
\* text shows a node's value when it is non-empty.
FormatA11yTree(p) == [kind |-> "tree", value |-> p.field]

\* The text used when the snapshot raises.
SnapshotErrorText == [kind |-> "error", value |-> <<>>]

\* The length above which a snapshot text is cut.
MAX_SNAPSHOT_CHARS == 48000

\* The marker "\n...[truncated]", character by character (its second
\* character is the horizontal ellipsis U+2026).
TruncationMarker ==
    << "\n", "...", "[", "t", "r", "u", "n", "c", "a", "t", "e", "d", "]" >>

\* The truncation cutting a text that is exactly as long as the limit too
\* (>= for >).
TruncateAtLimit(text) ==
    IF Len(text) >= MAX_SNAPSHOT_CHARS
    THEN SubSeq(text, 1, MAX_SNAPSHOT_CHARS) \o TruncationMarker
    ELSE text

\* if len(tree_text) > MAX_SNAPSHOT_CHARS:
\*     tree_text = tree_text[:MAX_SNAPSHOT_CHARS] + marker
Truncate(text) ==
    IF Len(text) > MAX_SNAPSHOT_CHARS
    THEN SubSeq(text, 1, MAX_SNAPSHOT_CHARS) \o TruncationMarker
    ELSE text

\* ----------------------------------------------------------- execute_action

\* The tags whose branch calls the page, and so can raise.
PageTags ==
    { Str("click"), Str("click_text"), Str("type"), Str("fill_label"),
      Str("fill_placeholder"), Str("navigate"), Str("scroll"), Str("wait") }

\* execute_action returning the text of whatever action carries one.
ActionResultAnyText(d) == Get(d, "text", NoneV)

\* What execute_action returns when nothing raises: the text of an Answer
\* (action.get("text", "")), and None for every other tag.
ActionResult(d) ==
    IF Get(d, "action", NoneV) = Str("answer")
    THEN Get(d, "text", EmptyStr)
    ELSE NoneV

\* The result of an execute_action call that does not reach the page.
\* settle is what has run, when execute_action is left, since its last
\* interaction with the page: "none" when it made no interaction, "raw" when
\* nothing ran after it, "delay" for a fixed wait_for_timeout only, and
\* "idle_delay" for the network-idle wait followed by the fixed delay.
QuietCall(p, ret) ==
    [ret |-> ret, raised |-> FALSE, page |-> p, calls |-> 0,
     settle |-> "none", pause |-> 0, lookup |-> "none"]

\* An execute_action call left by an exception of a page call.
FailedCall(p) ==
    [ret |-> NoneV, raised |-> TRUE, page |-> p, calls |-> 1,
     settle |-> "raw", pause |-> 0, lookup |-> "none"]

\* The element lookup of a branch of execute_action ("none" for a branch
\* that looks no element up).
LookupOf(act) ==
    CASE act \in {Str("click"), Str("type")} -> "get_by_role"
      [] act = Str("click_text") -> "get_by_text"
      [] act = Str("fill_label") -> "get_by_label"
      [] act = Str("fill_placeholder") -> "get_by_placeholder"
      [] OTHER -> "none"

\* The branches of execute_action that call the page (every tag of
\* PageTags), the page answering with outcome.
PageBranch(p, d, outcome) ==
    LET act == Get(d, "action", NoneV)
        done == [QuietCall(p, ActionResult(d)) EXCEPT !.calls = 1, !.settle = "delay",
                                            !.lookup = LookupOf(act)]
        failed == [FailedCall(p) EXCEPT !.lookup = LookupOf(act)]
    IN  IF act = Str("wait")
        THEN IF outcome = "raise"
             THEN [FailedCall(p) EXCEPT !.settle = "none"]
             ELSE [QuietCall(p, ActionResult(d)) EXCEPT
                     !.calls = 1,
                     !.pause = Val(Get(d, "seconds", Some(2))) * 1000]
        ELSE IF outcome = "raise" THEN failed
        ELSE IF act \in FillTags
        THEN LET text == Get(d, "text", EmptyStr)
             IN  IF IsNone(text) THEN failed
                 ELSE [done EXCEPT !.page.field = Val(text)]
        ELSE IF act = Str("navigate")
        THEN [done EXCEPT !.page.url = Val(Get(d, "url", EmptyStr))]
        ELSE done

\* ExecuteAction typing the configured username where the text holds the
\* placeholder.
ExecuteActionSubstituting(p, d, outcome) ==
    LET r == PageBranch(p, d, outcome)
    IN  IF Get(d, "action", NoneV) \notin PageTags
        THEN QuietCall(p, ActionResult(d))
        ELSE IF Get(d, "action", NoneV) \in FillTags /\ ~r.raised
        THEN [r EXCEPT !.page.field =
                 [i \in 1..Len(@) |->
                     IF @[i] = UsernameToken THEN SecretUser ELSE @[i]]]
        ELSE r

\* ExecuteAction raising for a tag it does not know.
ExecuteActionRejectsUnknown(p, d, outcome) ==
    IF Get(d, "action", NoneV) = Str("answer")
    THEN QuietCall(p, ActionResult(d))
    ELSE IF Get(d, "action", NoneV) \notin PageTags
    THEN [FailedCall(p) EXCEPT !.calls = 0, !.settle = "none"]
    ELSE PageBranch(p, d, outcome)

\* execute_action(page, action) when the page collaborator answers with
\* outcome ("ok", or "raise": a page call of the branch raises). ret is the
\* returned value, raised whether an exception left the call, page the page
\* afterwards, calls whether the page was called, settle what ran after the
\* last interaction, pause the milliseconds a wait action asked for and
\* lookup the element lookup made.
ExecuteAction(p, d, outcome) ==
    IF Get(d, "action", NoneV) \notin PageTags
    THEN QuietCall(p, ActionResult(d))
    ELSE PageBranch(p, d, outcome)

\* ------------------------------------------- browser.py: execute_action

BrowserClick(target) == [action |-> Str("click"), target |-> target]
BrowserFill(target) ==
    [action |-> Str("fill"), target |-> target, text |-> Str(UsernameToken)]

RoleNameTarget == [role |-> Str("button"), name |-> Str("Go")]
LabelTarget == [label |-> Str("Username")]

\* ResolveLocator testing for the text key first.
ResolveLocatorTextFirst(target) ==
    IF "text" \in DOMAIN target THEN "get_by_text"
    ELSE IF "role" \in DOMAIN target /\ "name" \in DOMAIN target
    THEN "get_by_role"
    ELSE IF "label" \in DOMAIN target THEN "get_by_label"
    ELSE IF "placeholder" \in DOMAIN target THEN "get_by_placeholder"
    ELSE "ValueError"

\* _resolve_locator: the lookup a target descriptor resolves to, by the keys
\* it carries, or "ValueError" when it carries none of them.
ResolveLocator(target) ==
    IF "role" \in DOMAIN target /\ "name" \in DOMAIN target THEN "get_by_role"
    ELSE IF "text" \in DOMAIN target THEN "get_by_text"
    ELSE IF "label" \in DOMAIN target THEN "get_by_label"
    ELSE IF "placeholder" \in DOMAIN target THEN "get_by_placeholder"
    ELSE "ValueError"

\* browser.execute_action(page, action) when the page answers with outcome:
\* the fields are those of ExecuteAction. The settling wait (two page calls)
\* stands after the branches, so a branch that raises skips it.
BrowserExecuteAction(p, d, outcome) ==
    LET act == Get(d, "action", NoneV)
        target == Get(d, "target", EmptyObj)
        settled == [QuietCall(p, NoneV) EXCEPT !.settle = "idle_delay",
                                               !.calls = 1]
        found == [settled EXCEPT !.lookup = ResolveLocator(target)]
    IN  IF act = Str("answer")
        THEN QuietCall(p, Get(d, "text", EmptyStr))
        ELSE IF act \in {Str("click"), Str("fill")}
        THEN IF ResolveLocator(target) = "ValueError"
             THEN [FailedCall(p) EXCEPT !.calls = 0, !.settle = "none"]
             ELSE IF outcome = "raise"
             THEN [FailedCall(p) EXCEPT !.lookup = ResolveLocator(target)]
             ELSE IF act = Str("fill")
             THEN IF IsNone(Get(d, "text", EmptyStr))
                  THEN [FailedCall(p) EXCEPT !.lookup = ResolveLocator(target)]
                  ELSE [found EXCEPT
                          !.page.field = Val(Get(d, "text", EmptyStr))]
             ELSE found
        ELSE settled

\* --------------------------------------------------------------- run state

VARIABLES
    maxSteps,    \* max_steps of the run
    username,    \* LEARNPF_USERNAME: NoneV when not configured
    pc,          \* where run_agent is
    step,        \* the loop variable of run_agent (0 before the loop)
    history,     \* WebAgent.history
    request,     \* the messages of the last completion request
    treeText,    \* tree_text of the current step
    raw,         \* raw of the current step
    action,      \* what _parse_action returned in the current step
    page,        \* the page
    result,      \* result of the current step (what execute_action returned)
    returned,    \* run_agent's return value
    nSnap,       \* snapshots taken
    nChat,       \* completion requests issued
    nExec,       \* execute_action calls
    nPage,       \* execute_action calls that called the page
    nClose,      \* browser.close() calls
    faults,      \* failures of the browser so far
    settle,      \* what ran after execute_action's last page interaction
    response,    \* the answer of /run to its caller
    call,        \* the last direct call of a component: its input and output
    toolPage,    \* the page the directly called executors work on
    sessions,    \* concurrent runs: the locals of each run_agent call
    heapLists,   \* concurrent runs: the list objects (WebAgent.history)
    heapPages,   \* concurrent runs: the page objects
    slackPc,     \* Slack bot: where the handler of the request is
    slackEvent,  \* Slack bot: the handler called and its event
    prompt,      \* Slack bot: the prompt handed to _process_prompt
    posts,       \* Slack bot: the messages posted by say
    apiCalls,    \* Slack bot: calls of the Gurney API
    apiResult,   \* Slack bot: what the client's run_agent returned
    sayFaults    \* Slack bot: say calls that raised

\* The state of a run of run_agent and of its /run request.
runVars ==
    << maxSteps, username, pc, step, history, request, treeText, raw, action,
       page, result, returned, nSnap, nChat, nExec, nPage, nClose, faults,
       settle, response >>

\* The state of the direct calls of the parser, the resolver and the
\* executors.
toolVars == << call, toolPage >>

\* The state of the runs that execute concurrently.
concVars == << sessions, heapLists, heapPages >>

\* The state of the Slack bot's handling of one request.
slackVars ==
    << slackPc, slackEvent, prompt, posts, apiCalls, apiResult, sayFaults >>

vars == << runVars, toolVars, concVars, slackVars >>

Terminal == {"success", "exhausted", "fatal"}

SystemTurn == [role |-> "system", kind |-> "prompt"]

\* The user turn _chat is called with: the goal, the URL and the tree text.
ObservationTurn(url, tree) ==
    [role |-> "user", kind |-> "observation", url |-> url, tree |-> tree]

AssistantTurn(reply) == [role |-> "assistant", kind |-> "reply", content |-> reply]

\* The failure turn without the action's name.
FailureTurnAnonymous(act, cause) ==
    [role |-> "user", kind |-> "error", act |-> NoneV, cause |-> cause]

\* The turn appended when the executor raises: it names the action and the
\* cause.
FailureTurn(act, cause) ==
    [role |-> "user", kind |-> "error", act |-> act, cause |-> cause]

NoResponse == [status |-> 0]

NoLocals == [kind |-> "unset", d |-> EmptyObj]

\* No component has been called directly.
NoCall == [fn |-> "none"]

\* The concurrent runs, and a run_agent call that has not begun: it has no
\* agent and no page yet.
Runs == 1..NumRuns

NotStarted ==
    [pc |-> "new", step |-> 0, history |-> 0, page |-> 0, tree |-> <<>>,
     act |-> "none", request |-> <<>>, returned |-> NoneV]

\* NextIteration with the loop running one iteration past the budget
\* (range(1, max_steps + 2)).
NextIterationPastBudget ==
    IF step <= maxSteps
    THEN step' = step + 1 /\ pc' = "observe"
    ELSE step' = step /\ pc' = "loopend"

\* NextIteration with the loop ending one iteration early
\* (range(1, max_steps)).
NextIterationStopsEarly ==
    IF step + 1 < maxSteps
    THEN step' = step + 1 /\ pc' = "observe"
    ELSE step' = step /\ pc' = "loopend"

\* NextIteration as a loop that forgets to advance its counter.
NextIterationNoAdvance ==
    IF step < maxSteps
    THEN step' = step /\ pc' = "observe"
    ELSE step' = step /\ pc' = "loopend"

\* The next iteration of `for step in range(1, max_steps + 1)`, or the code
\* after the loop.
NextIteration ==
    IF step < maxSteps
    THEN step' = step + 1 /\ pc' = "observe"
    ELSE step' = step /\ pc' = "loopend"

Init ==
    /\ maxSteps \in 0..MaxStepsBound
    /\ username \in {NoneV, Some(SecretUser)}
    /\ pc = "start"
    /\ step = 0
    /\ history = <<>>
    /\ request = <<>>
    /\ treeText = SnapshotErrorText
    /\ raw = <<>>
    /\ action = NoLocals
    /\ page = InitPage
    /\ result = NoneV
    /\ returned = NoneV
    /\ nSnap = 0 /\ nChat = 0 /\ nExec = 0 /\ nPage = 0 /\ nClose = 0
    /\ faults = 0
    /\ settle = "none"
    /\ response = NoResponse
    /\ call = NoCall
    /\ toolPage = InitPage
    /\ sessions = [r \in Runs |-> NotStarted]
    /\ heapLists = [l \in Runs |-> <<>>]
    /\ heapPages = [g \in Runs |-> InitPage]
    /\ slackPc = "idle"
    /\ slackEvent = [handler |-> "none"]
    /\ prompt = <<>>
    /\ posts = <<>>
    /\ apiCalls = 0
    /\ apiResult = [kind |-> "none"]
    /\ sayFaults = 0

\* The browser is launched and the start URL loaded; the loop is entered.
Launch ==
    /\ pc = "start"
    /\ NextIteration
    /\ UNCHANGED << concVars, toolVars, slackVars, settle, maxSteps, username, history, request, treeText, raw, action,
                    page, result, returned, nSnap, nChat, nExec, nPage, nClose,
                    faults, response >>

\* The launch or the initial page.goto raises: the exception leaves run_agent.
LaunchFails ==
    /\ pc = "start"
    /\ pc' = "fatal"
    /\ UNCHANGED << concVars, toolVars, slackVars, settle, maxSteps, username, step, history, request, treeText, raw,
                    action, page, result, returned, nSnap, nChat, nExec, nPage,
                    nClose, faults, response >>

\* Snapshot with a failure of the snapshot call leaving run_agent as an
\* exception.
SnapshotAborts(ok) ==
    /\ pc = "observe"
    /\ ok \/ faults < MaxFaults
    /\ treeText' = IF ok THEN FormatA11yTree(page) ELSE treeText
    /\ faults' = IF ok THEN faults ELSE faults + 1
    /\ nSnap' = nSnap + 1
    /\ settle' = "none"
    /\ raw' = <<>>
    /\ action' = NoLocals
    /\ result' = NoneV
    /\ pc' = IF ok THEN "decide" ELSE "fatal"
    /\ UNCHANGED << concVars, toolVars, slackVars, maxSteps, username, step, history, request, page, returned,
                    nChat, nExec, nPage, nClose, response >>

\* Step 1 of an iteration: the snapshot, or its error text, cut to the
\* limit (the texts of the run's page are all below it).
Snapshot(ok) ==
    /\ pc = "observe"
    /\ ok \/ faults < MaxFaults
    /\ treeText' = LET t == IF ok THEN FormatA11yTree(page)
                                 ELSE SnapshotErrorText
                   IN  [t EXCEPT !.value = Truncate(@)]
    /\ faults' = IF ok THEN faults ELSE faults + 1
    /\ nSnap' = nSnap + 1
    /\ settle' = "none"
    /\ raw' = <<>>
    /\ action' = NoLocals
    /\ result' = NoneV
    /\ pc' = "decide"
    /\ UNCHANGED << concVars, toolVars, slackVars, maxSteps, username, step, history, request, page, returned,
                    nChat, nExec, nPage, nClose, response >>

\* Chat storing the system turn in the history on its first call.
ChatPersistsSystem(reply) ==
    /\ pc = "decide"
    /\ LET kept == IF history = <<>> THEN <<SystemTurn>> ELSE history
           asked == Append(kept, ObservationTurn(page.url, treeText))
       IN  /\ request' = asked
           /\ history' = Append(asked, AssistantTurn(reply))
    /\ raw' = reply
    /\ nChat' = nChat + 1
    /\ pc' = "parse"
    /\ UNCHANGED << concVars, toolVars, slackVars, settle, maxSteps, username, step, treeText,
                    action, page, result, returned, nSnap, nExec, nPage,
                    nClose, faults, response >>

\* Chat keeping only the turns of the current call in the history.
ChatKeepsLastTurns(reply) ==
    /\ pc = "decide"
    /\ request' = <<SystemTurn>> \o
                     Append(history, ObservationTurn(page.url, treeText))
    /\ history' = << ObservationTurn(page.url, treeText), AssistantTurn(reply) >>
    /\ raw' = reply
    /\ nChat' = nChat + 1
    /\ pc' = "parse"
    /\ UNCHANGED << concVars, toolVars, slackVars, settle, maxSteps, username, step, treeText, action, page, result,
                    returned, nSnap, nExec, nPage, nClose, faults,
                    response >>

\* WebAgent._chat answering reply: the user turn is appended, the request is
\* the system turn followed by the history, the reply is appended.
Chat(reply) ==
    /\ pc = "decide"
    /\ LET asked == Append(history, ObservationTurn(page.url, treeText))
       IN  /\ request' = <<SystemTurn>> \o asked
           /\ history' = Append(asked, AssistantTurn(reply))
    /\ raw' = reply
    /\ nChat' = nChat + 1
    /\ pc' = "parse"
    /\ UNCHANGED << concVars, toolVars, slackVars, settle, maxSteps, username, step, treeText, action, page, result,
                    returned, nSnap, nExec, nPage, nClose, faults,
                    response >>

\* ChatFails with the failed completion request tried again.
ChatFailsRetried ==
    /\ pc = "decide"
    /\ history' = Append(history, ObservationTurn(page.url, treeText))
    /\ request' = <<SystemTurn>> \o history'
    /\ nChat' = nChat + 1
    /\ pc' = "decide"
    /\ UNCHANGED << concVars, toolVars, slackVars, settle, maxSteps, username, step, treeText, raw, action, page,
                    result, returned, nSnap, nExec, nPage, nClose, faults,
                    response >>

\* WebAgent._chat when the completion request raises: the user turn is
\* already appended, and the exception leaves run_agent.
ChatFails ==
    /\ pc = "decide"
    /\ history' = Append(history, ObservationTurn(page.url, treeText))
    /\ request' = <<SystemTurn>> \o history'
    /\ nChat' = nChat + 1
    /\ pc' = "fatal"
    /\ UNCHANGED << concVars, toolVars, slackVars, settle, maxSteps, username, step, treeText, raw, action, page,
                    result, returned, nSnap, nExec, nPage, nClose, faults, response >>

\* Parse sending a decoded action back to the snapshot of the same step
\* instead of on to the executor.
ParseResnapshots ==
    /\ pc = "parse"
    /\ action' = ParseAction(raw)
    /\ CASE action'.kind = "none" -> NextIteration
         [] action'.kind = "other" -> pc' = "fatal" /\ step' = step
         [] OTHER -> pc' = (IF nSnap = step THEN "observe" ELSE "execute")
                     /\ step' = step
    /\ UNCHANGED << concVars, toolVars, slackVars, settle, maxSteps, username, history, request, treeText, raw, page,
                    result, returned, nSnap, nChat, nExec, nPage, nClose,
                    faults, response >>

\* _parse_action and the loop's reading of its value: None skips the step,
\* a value that is no dict makes action.get raise outside the try.
Parse ==
    /\ pc = "parse"
    /\ action' = ParseAction(raw)
    /\ CASE action'.kind = "none" -> NextIteration
         [] action'.kind = "other" -> pc' = "fatal" /\ step' = step
         [] OTHER -> pc' = "execute" /\ step' = step
    /\ UNCHANGED << concVars, toolVars, slackVars, settle, maxSteps, username, history, request, treeText, raw, page,
                    result, returned, nSnap, nChat, nExec, nPage, nClose,
                    faults, response >>

\* The first half of the try block: execute_action on the action as it was
\* parsed. A result that is not None leads to browser.close(), an exception
\* to the except clause and its failure turn.
Execute(outcome) ==
    /\ pc = "execute"
    /\ outcome = "ok" \/ faults < MaxFaults
    /\ LET r == ExecuteAction(page, action.d, outcome)
       IN  /\ page' = r.page
           /\ nExec' = nExec + 1
           /\ nPage' = nPage + r.calls
           /\ result' = r.ret
           /\ settle' = r.settle
           /\ IF r.raised
              THEN /\ history' = Append(history,
                          FailureTurn(Get(action.d, "action", NoneV), "raised"))
                   /\ faults' = faults + 1
                   /\ NextIteration
              ELSE IF ~IsNone(r.ret)
              THEN /\ pc' = "closing"
                   /\ UNCHANGED << history, faults, step >>
              ELSE /\ NextIteration
                   /\ UNCHANGED << history, faults >>
    /\ UNCHANGED << concVars, toolVars, slackVars, maxSteps, username, request, treeText, raw, action,
                    returned, nSnap, nChat, nClose, response >>

\* The second half of the try block: browser.close() and `return result`.
\* browser.close() raising is caught by the same except clause.
CloseAndReturn(ok) ==
    /\ pc = "closing"
    /\ ok \/ faults < MaxFaults
    /\ nClose' = nClose + 1
    /\ IF ok
       THEN /\ returned' = result
            /\ pc' = "success"
            /\ UNCHANGED << history, faults, step >>
       ELSE /\ history' = Append(history,
                   FailureTurn(Get(action.d, "action", NoneV), "raised"))
            /\ faults' = faults + 1
            /\ returned' = returned
            /\ NextIteration
    /\ UNCHANGED << concVars, toolVars, slackVars, settle, maxSteps, username, request, treeText, raw, action, page,
                    result, nSnap, nChat, nExec, nPage, response >>

\* After the loop: browser.close() and `return None`; a close that raises
\* here is outside every try.
LoopEnd(ok) ==
    /\ pc = "loopend"
    /\ ok \/ faults < MaxFaults
    /\ nClose' = nClose + 1
    /\ faults' = IF ok THEN faults ELSE faults + 1
    /\ pc' = IF ok THEN "exhausted" ELSE "fatal"
    /\ UNCHANGED << concVars, toolVars, slackVars, settle, maxSteps, username, step, history, request, treeText, raw,
                    action, page, result, returned, nSnap, nChat, nExec, nPage,
                    response >>

\* ------------------------------------------------------------------- /run

\* RunResponse(success, result, error) with status 200, or the HTTPException
\* with status 500 raised for an exception of run_agent.
RunResponse(success, res, error) ==
    [status |-> 200, success |-> success, result |-> res, error |-> error]

ReachedMaxSteps == Str("Reached max steps without an answer.")

\* RunEndpoint reporting exhaustion without an error message.
RunEndpointNoError(outcome, value) ==
    IF outcome = "fatal" THEN [status |-> 500]
    ELSE IF IsNone(value) THEN RunResponse(FALSE, NoneV, NoneV)
    ELSE RunResponse(TRUE, value, NoneV)

\* What run() answers for an outcome of run_agent.
RunEndpoint(outcome, value) ==
    IF outcome = "fatal" THEN [status |-> 500]
    ELSE IF IsNone(value) THEN RunResponse(FALSE, NoneV, ReachedMaxSteps)
    ELSE RunResponse(TRUE, value, NoneV)

\* What the Slack client's run_agent hands on for an answer of /run: the
\* body of a 200, and for any other status a failure carrying the status.
ClientRunAgent(resp) ==
    IF resp.status # 200
    THEN [success |-> FALSE, result |-> NoneV, error |-> Str("API returned 500")]
    ELSE [success |-> resp.success, result |-> resp.result, error |-> resp.error]

\* run() returns to its caller once run_agent has ended.
Respond ==
    /\ pc \in Terminal
    /\ response = NoResponse
    /\ response' = RunEndpoint(pc, returned)
    /\ UNCHANGED << concVars, toolVars, slackVars, settle, maxSteps, username, pc, step, history, request, treeText,
                    raw, action, page, result, returned, nSnap, nChat, nExec,
                    nPage, nClose, faults >>

\* ------------------------------------------------------------ specification

Next ==
    \/ Launch
    \/ LaunchFails
    \/ \E ok \in BOOLEAN : Snapshot(ok)
    \/ \E reply \in RunReplies : Chat(reply)
    \/ ChatFails
    \/ Parse
    \/ \E outcome \in {"ok", "raise"} : Execute(outcome)
    \/ \E ok \in BOOLEAN : CloseAndReturn(ok)
    \/ \E ok \in BOOLEAN : LoopEnd(ok)
    \/ Respond

Spec == Init /\ [][Next]_vars


\* The run with every collaborator call returning or failing: run_agent is
\* one coroutine, and each step of it is taken once its await completes.
FairSpec == Spec /\ WF_vars(Next)

\* ------------------------------------------------------- direct calls

\* The components called directly, outside a run: _parse_action on a reply,
\* _resolve_locator on a target descriptor (one call each), and the two
\* execute_action functions on one action after another, working on
\* toolPage.

\* The tokens of the replies the parser is called on.
SampleTokens == {LB, RB, ProseTok, NumTok, Members(AnswerHi)}


SampleReplies == UNION {[1..n -> SampleTokens] : n \in 0..MaxRawLen}


\* The keys a target descriptor is made of, "css" being one the resolver
\* does not know.
TargetKeys == {"role", "name", "text", "label", "placeholder", "css"}

\* Every target descriptor over those keys, the empty one included.
SampleTargets == {[k \in K |-> Str("x")] : K \in SUBSET TargetKeys}

\* A wait action asking for n seconds.
WaitFor(n) == [action |-> Str("wait"), seconds |-> Some(n)]

\* The tags of gurney.py's executor that locate an element.
LocatingTags ==
    { Str("click"), Str("click_text"), Str("type"), Str("fill_label"),
      Str("fill_placeholder") }

\* One action of every tag the executor knows, an unknown tag and the empty
\* object.
SampleActions ==
    { AnswerHi, AnswerEmpty, AnswerMissing, AnswerNull, ClickGo, ClickText,
      TypeUser, FillLabel, FillPlaceholder, NavigateTo, ScrollDown, WaitTwo,
      Hover, EmptyObj }

\* One action of every tag and target shape of browser.py's executor.
BrowserSampleActions ==
    { AnswerHi, AnswerEmpty, AnswerMissing, AnswerNull,
      BrowserClick(RoleNameTarget), BrowserClick(EmptyObj),
      BrowserFill(LabelTarget), BrowserFill(EmptyObj), Hover, EmptyObj }


\* The actions gurney.py's executor is called on directly: the sample, a
\* wait of every duration up to MaxSeconds and, for every tag that locates
\* an element, the action without any locating key.
ToolActions ==
    SampleActions \cup {WaitFor(n) : n \in 0..MaxSeconds}
        \cup {[action |-> t] : t \in LocatingTags}

\* The actions browser.py's executor is called on directly: a click and a
\* fill with every target descriptor, and the sample.
BrowserToolActions ==
    BrowserSampleActions
        \cup {BrowserClick(t) : t \in SampleTargets}
        \cup {BrowserFill(t) : t \in SampleTargets}

\* A snapshot text of n characters: its first and its last character differ
\* from the rest.
TextOfLength(n) ==
    [i \in 1..n |-> IF i = 1 THEN "[" ELSE IF i = n THEN "]" ELSE "a"]

\* The snapshot texts get_snapshot is called on: the empty one, short ones,
\* and those around the limit.
SampleTexts ==
    { TextOfLength(n) :
        n \in {0, 1, 2} \cup
              (MAX_SNAPSHOT_CHARS - 1)..(MAX_SNAPSHOT_CHARS + MaxExcess) }

\* WebAgent._parse_action(text).
CallParse(text) ==
    /\ call = NoCall
    /\ call' = [fn |-> "parse", arg |-> text, out |-> ParseAction(text)]
    /\ UNCHANGED << toolPage, runVars, concVars, slackVars >>

\* _resolve_locator(page, target).
CallResolve(target) ==
    /\ call = NoCall
    /\ call' = [fn |-> "resolve", arg |-> target, out |-> ResolveLocator(target)]
    /\ UNCHANGED << toolPage, runVars, concVars, slackVars >>

\* gurney.execute_action(page, action).
CallExecute(d, outcome) ==
    /\ call.fn \in {"none", "execute", "browser_execute"}
    /\ call' = [fn |-> "execute", arg |-> d, before |-> toolPage,
                out |-> ExecuteAction(toolPage, d, outcome)]
    /\ toolPage' = call'.out.page
    /\ UNCHANGED << runVars, concVars, slackVars >>

\* browser.execute_action(page, action).
CallBrowserExecute(d, outcome) ==
    /\ call.fn \in {"none", "execute", "browser_execute"}
    /\ call' = [fn |-> "browser_execute", arg |-> d, before |-> toolPage,
                out |-> BrowserExecuteAction(toolPage, d, outcome)]
    /\ toolPage' = call'.out.page
    /\ UNCHANGED << runVars, concVars, slackVars >>

\* browser.get_snapshot(page), text being what aria_snapshot returned or
\* the error text made of its exception.
CallGetSnapshot(text) ==
    /\ call = NoCall
    /\ call' = [fn |-> "get_snapshot", arg |-> text, out |-> Truncate(text)]
    /\ UNCHANGED << toolPage, runVars, concVars, slackVars >>

ToolNext ==
    \/ \E text \in SampleReplies : CallParse(text)
    \/ \E text \in SampleTexts : CallGetSnapshot(text)
    \/ \E target \in SampleTargets : CallResolve(target)
    \/ \E d \in ToolActions : \E outcome \in {"ok", "raise"} :
          CallExecute(d, outcome)
    \/ \E d \in BrowserToolActions : \E outcome \in {"ok", "raise"} :
          CallBrowserExecute(d, outcome)

\* No run is started: max_steps and the configuration are fixed.
ToolInit == Init /\ maxSteps = 0 /\ IsNone(username)

ToolSpec == ToolInit /\ [][ToolNext]_vars

\* ------------------------------------------------------ concurrent runs

\* Several /run requests in flight on the one event loop: each is a call of
\* run_agent, and the calls interleave at their awaits (the snapshot, the
\* page calls of execute_action). _chat is a synchronous call, so its two
\* appends and its request are one step. Objects live on a heap: a run holds
\* the identity of its agent's history list and of its page.

\* SharedList: every WebAgent using one list object (a class attribute).
SharedList(r) == 1

\* The list object `self.history = []` creates for the agent of run r: a new
\* object at every call of WebAgent.__init__.
NewList(r) == r

\* The page object context.new_page() creates for run r.
NewPage(r) == r

\* The user turn of run r: its goal (the prompt of its request) and tree.
ConcObservationTurn(r, tree) ==
    [role |-> "user", kind |-> "observation", run |-> r, tree |-> tree]

\* The reply given to run r, and the failure turn of run r.
ConcAssistantTurn(r, reply) ==
    [role |-> "assistant", kind |-> "reply", run |-> r, content |-> reply]

ConcFailureTurn(r, act) ==
    [role |-> "user", kind |-> "error", run |-> r, act |-> act]

\* run_agent up to the loop: the agent, the browser and the page of run r.
ConcStart(r) ==
    /\ sessions[r].pc = "new"
    /\ sessions' = [sessions EXCEPT ![r] =
           [@ EXCEPT !.pc = "observe", !.step = 1,
                     !.history = NewList(r), !.page = NewPage(r)]]
    /\ heapLists' = [heapLists EXCEPT ![NewList(r)] = <<>>]
    /\ heapPages' = [heapPages EXCEPT ![NewPage(r)] = InitPage]
    /\ UNCHANGED << runVars, toolVars, slackVars >>

\* The snapshot of run r's page.
ConcSnapshot(r) ==
    /\ sessions[r].pc = "observe"
    /\ sessions' = [sessions EXCEPT ![r] =
           [@ EXCEPT !.pc = "decide",
                     !.tree = Truncate(heapPages[sessions[r].page].field)]]
    /\ UNCHANGED << heapLists, heapPages, runVars, toolVars, slackVars >>

\* _chat of run r's agent, the model replying with an action of tag reply.
ConcChat(r, reply) ==
    /\ sessions[r].pc = "decide"
    /\ LET h == sessions[r].history
           asked == Append(heapLists[h],
                           ConcObservationTurn(r, sessions[r].tree))
       IN  /\ heapLists' = [heapLists EXCEPT ![h] =
                  Append(asked, ConcAssistantTurn(r, reply))]
           /\ sessions' = [sessions EXCEPT ![r] =
                  [@ EXCEPT !.pc = "execute", !.act = reply,
                            !.request = <<SystemTurn>> \o asked]]
    /\ UNCHANGED << heapPages, runVars, toolVars, slackVars >>

\* The for loop of run r going on, or ending with `return None`.
ConcNextIteration(s) ==
    IF s.step < ConcMaxSteps
    THEN [s EXCEPT !.pc = "observe", !.step = s.step + 1]
    ELSE [s EXCEPT !.pc = "done"]

\* The try block of run r: an answer is returned, a fill writes to the
\* run's page or raises, and a raise appends the failure turn.
ConcExecute(r, outcome) ==
    /\ sessions[r].pc = "execute"
    /\ LET s == sessions[r]
       IN  IF s.act = "answer"
           THEN /\ sessions' = [sessions EXCEPT ![r] =
                       [s EXCEPT !.pc = "done", !.returned = Str("hi")]]
                /\ UNCHANGED << heapLists, heapPages >>
           ELSE IF outcome = "raise"
           THEN /\ heapLists' = [heapLists EXCEPT ![s.history] =
                       Append(@, ConcFailureTurn(r, s.act))]
                /\ sessions' = [sessions EXCEPT ![r] = ConcNextIteration(s)]
                /\ UNCHANGED heapPages
           ELSE /\ heapPages' = [heapPages EXCEPT ![s.page].field = <<"typed">>]
                /\ sessions' = [sessions EXCEPT ![r] = ConcNextIteration(s)]
                /\ UNCHANGED heapLists
    /\ UNCHANGED << runVars, toolVars, slackVars >>

ConcNext ==
    \E r \in Runs :
        \/ ConcStart(r)
        \/ ConcSnapshot(r)
        \/ \E reply \in {"answer", "fill"} : ConcChat(r, reply)
        \/ \E outcome \in {"ok", "raise"} : ConcExecute(r, outcome)

\* No single run and no direct call: only the concurrent runs move.
ConcInit == Init /\ maxSteps = 0 /\ IsNone(username)

ConcSpec == ConcInit /\ [][ConcNext]_vars

\* ------------------------------------------------------- the Slack front-end

\* One request to the bot: a slash command, an app mention or a message
\* event reaches its handler, which calls _process_prompt. The coroutine
\* moves at its awaits: the first say, the call of the Gurney API, the say
\* of the outcome, and the say of the except clause. A say is a call of the
\* Slack Web API and can raise as the call of the Gurney API can.

\* The tokens of a message text: a blank, a word and a user mention.
SP == " "
WordTok == "go"
MentionTok == "<@U1>"

\* The texts an event can carry.
SampleSlackTexts ==
    UNION {[1..n -> {SP, WordTok, MentionTok}] : n \in 0..MaxTextLen}

RECURSIVE LStrip(_)
LStrip(s) == IF s # <<>> /\ s[1] = SP THEN LStrip(Tail(s)) ELSE s

RECURSIVE RStrip(_)
RStrip(s) ==
    IF s # <<>> /\ s[Len(s)] = SP THEN RStrip(SubSeq(s, 1, Len(s) - 1)) ELSE s

\* str.strip().
Strip(s) == RStrip(LStrip(s))

\* re.sub(r"<@[A-Z0-9]+>\s*", "", text): every mention goes, with the
\* blanks that follow it.
RECURSIVE DropMentions(_)
DropMentions(s) ==
    IF s = <<>> THEN <<>>
    ELSE IF s[1] = MentionTok THEN DropMentions(LStrip(Tail(s)))
    ELSE <<s[1]>> \o DropMentions(Tail(s))

\* _extract_prompt(text).
ExtractPrompt(text) == Strip(DropMentions(text))

\* `value or ""` for a text that may be None.
OrEmpty(v) == IF IsNone(v) THEN <<>> ELSE Val(v)

\* The message events: any channel type, with or without bot_id, subtype
\* and text.
MessageEvents ==
    [ channel_type : {NoneV, Str("im"), Str("channel")},
      bot_id : {NoneV, Str("B1")},
      subtype : {NoneV, Str("message_changed")},
      text : {NoneV} \cup {Some(t) : t \in SampleSlackTexts} ]

\* The bodies of the slash command and the app_mention events.
CommandBodies == [ text : {NoneV} \cup {Some(t) : t \in SampleSlackTexts} ]
MentionEvents == [ text : {Some(t) : t \in SampleSlackTexts} ]

\* The messages _process_prompt posts.
WarningMsg == [kind |-> "warning"]
RunningMsg(p) == [kind |-> "running", prompt |-> p]
ResultMsg(answer) == [kind |-> "result", body |-> answer]
FailedMsg(error) == [kind |-> "failed", body |-> error]
CallErrorMsg == [kind |-> "call_error"]

\* The answers of /run the client can receive: for an answer, for an
\* exhausted run and for an exception of run_agent.
ApiResponses ==
    { RunEndpoint("success", Str("hi")),
      RunEndpoint("exhausted", NoneV),
      RunEndpoint("fatal", NoneV) }

\* handle_dm admitting every message event.
DmAdmitsAll(ev) == TRUE

\* handle_dm's two early returns: only a message of an 'im' channel with
\* neither bot_id nor subtype goes on.
DmAdmits(ev) ==
    /\ Get(ev, "channel_type", NoneV) = Str("im")
    /\ OrEmpty(Get(ev, "bot_id", NoneV)) = <<>>
    /\ OrEmpty(Get(ev, "subtype", NoneV)) = <<>>

\* handle_dm(event, say).
HandleDm(ev) ==
    /\ slackPc = "idle"
    /\ slackEvent' = [handler |-> "dm", event |-> ev]
    /\ IF DmAdmits(ev)
       THEN /\ prompt' = Strip(OrEmpty(Get(ev, "text", NoneV)))
            /\ slackPc' = "process"
       ELSE /\ prompt' = prompt
            /\ slackPc' = "ignored"
    /\ UNCHANGED << posts, apiCalls, apiResult, sayFaults, runVars, toolVars,
                    concVars >>

\* handle_gurney_command(ack, body, say).
HandleGurneyCommand(body) ==
    /\ slackPc = "idle"
    /\ slackEvent' = [handler |-> "command", event |-> body]
    /\ prompt' = Strip(OrEmpty(Get(body, "text", NoneV)))
    /\ slackPc' = "process"
    /\ UNCHANGED << posts, apiCalls, apiResult, sayFaults, runVars, toolVars,
                    concVars >>

\* handle_app_mention(event, say).
HandleAppMention(ev) ==
    /\ slackPc = "idle"
    /\ slackEvent' = [handler |-> "mention", event |-> ev]
    /\ prompt' = ExtractPrompt(Val(Get(ev, "text", Some(<<>>))))
    /\ slackPc' = "process"
    /\ UNCHANGED << posts, apiCalls, apiResult, sayFaults, runVars, toolVars,
                    concVars >>

\* _process_prompt up to its first await: the warning for an empty prompt,
\* the running message otherwise. Both say calls are outside the try.
ProcessPromptSay(ok) ==
    /\ slackPc = "process"
    /\ ok \/ sayFaults < MaxSayFaults
    /\ sayFaults' = IF ok THEN sayFaults ELSE sayFaults + 1
    /\ IF ~ok THEN slackPc' = "escaped" /\ posts' = posts
       ELSE IF prompt = <<>>
       THEN slackPc' = "done" /\ posts' = Append(posts, WarningMsg)
       ELSE slackPc' = "calling" /\ posts' = Append(posts, RunningMsg(prompt))
    /\ UNCHANGED << slackEvent, prompt, apiCalls, apiResult, runVars,
                    toolVars, concVars >>

\* ProcessPromptCall without the try: an exception of the client leaves
\* _process_prompt.
ProcessPromptCallUncaught(resp, ok) ==
    /\ slackPc = "calling"
    /\ apiCalls' = apiCalls + 1
    /\ IF ok
       THEN /\ apiResult' = [kind |-> "returned", value |-> ClientRunAgent(resp)]
            /\ slackPc' = "reporting"
       ELSE /\ apiResult' = [kind |-> "raised"]
            /\ slackPc' = "escaped"
    /\ UNCHANGED << slackEvent, prompt, posts, sayFaults, runVars, toolVars,
                    concVars >>

\* `result = await run_agent(prompt)` inside the try: the client posts to
\* /run once and returns what it makes of the answer, or raises.
ProcessPromptCall(resp, ok) ==
    /\ slackPc = "calling"
    /\ apiCalls' = apiCalls + 1
    /\ IF ok
       THEN /\ apiResult' = [kind |-> "returned", value |-> ClientRunAgent(resp)]
            /\ slackPc' = "reporting"
       ELSE /\ apiResult' = [kind |-> "raised"]
            /\ slackPc' = "handling"
    /\ UNCHANGED << slackEvent, prompt, posts, sayFaults, runVars, toolVars,
                    concVars >>

\* The rest of the try: the result or the agent's failure is posted; a say
\* that raises here is caught by the except clause.
ProcessPromptReport(ok) ==
    /\ slackPc = "reporting"
    /\ ok \/ sayFaults < MaxSayFaults
    /\ sayFaults' = IF ok THEN sayFaults ELSE sayFaults + 1
    /\ LET r == apiResult.value
           msg == IF Get(r, "success", FALSE)
                  THEN ResultMsg(Get(r, "result", Str("(no result)")))
                  ELSE FailedMsg(Get(r, "error", Str("Unknown error")))
       IN  IF ok
           THEN slackPc' = "done" /\ posts' = Append(posts, msg)
           ELSE slackPc' = "handling" /\ posts' = posts
    /\ UNCHANGED << slackEvent, prompt, apiCalls, apiResult, runVars,
                    toolVars, concVars >>

\* The except clause: the call error is posted; this say is outside every
\* try.
ProcessPromptExcept(ok) ==
    /\ slackPc = "handling"
    /\ ok \/ sayFaults < MaxSayFaults
    /\ sayFaults' = IF ok THEN sayFaults ELSE sayFaults + 1
    /\ IF ok
       THEN slackPc' = "done" /\ posts' = Append(posts, CallErrorMsg)
       ELSE slackPc' = "escaped" /\ posts' = posts
    /\ UNCHANGED << slackEvent, prompt, apiCalls, apiResult, runVars,
                    toolVars, concVars >>

SlackNext ==
    \/ \E ev \in MessageEvents : HandleDm(ev)
    \/ \E body \in CommandBodies : HandleGurneyCommand(body)
    \/ \E ev \in MentionEvents : HandleAppMention(ev)
    \/ \E ok \in BOOLEAN : ProcessPromptSay(ok)
    \/ \E resp \in ApiResponses : \E ok \in BOOLEAN : ProcessPromptCall(resp, ok)
    \/ \E ok \in BOOLEAN : ProcessPromptReport(ok)
    \/ \E ok \in BOOLEAN : ProcessPromptExcept(ok)

\* No run of the agent in this process and no direct call: only the bot
\* moves.
SlackInit == Init /\ maxSteps = 0 /\ IsNone(username)

SlackSpec == SlackInit /\ [][SlackNext]_vars

\* ------------------------------------------------------------------ helpers

\* The tag of the action parsed in the current step (None when there is none).
Act == Get(action.d, "action", NoneV)

IsAnswer(d) == Get(d, "action", NoneV) = Str("answer")

\* The turns of a sequence of turns that hold a model reply parsing to an
\* Answer.
AnswerTurns(h) ==
    { i \in 1..Len(h) :
        /\ h[i].role = "assistant"
        /\ ParseAction(h[i].content).kind = "dict"
        /\ IsAnswer(ParseAction(h[i].content).d) }

\* -------------------------------------------------------------------- C1

\* C1: the step index never exceeds maxSteps, it equals the number of
\* iterations begun (one snapshot each, whether or not the step produced a
\* usable action), it grows by exactly one when an iteration begins and not
\* otherwise, and a run issues at most maxSteps completion requests and at
\* most maxSteps execute_action calls.
C1_StepBudget ==
    /\ [](/\ step <= maxSteps
          /\ nChat <= step
          /\ nExec <= nChat
          /\ nChat <= maxSteps
          /\ nExec <= maxSteps
          /\ nSnap = IF pc = "observe" THEN step - 1 ELSE step)
    /\ [][\/ step' = step /\ (pc' = "observe" => pc = "observe")
          \/ step' = step + 1 /\ pc' = "observe" /\ pc # "observe"]_vars

\* A run that used its whole budget of at least two steps, one of them
\* without a usable action.
C1_Witness ==
    /\ pc = "loopend"
    /\ maxSteps >= 2
    /\ step = maxSteps
    /\ nChat = maxSteps
    /\ nExec > 0
    /\ nExec < maxSteps

\* -------------------------------------------------------------------- C2

\* C2 (as claimed): once the action parsed at a step is an Answer, the run
\* goes through browser.close() to Success at that step and returns the
\* Answer's text; it never goes on to a next iteration or to the end of the
\* loop.
C2_AnswerHalts ==
    (action.kind = "dict" /\ IsAnswer(action.d)) =>
        /\ pc \in {"execute", "closing", "success"}
        /\ pc = "success" => returned = Get(action.d, "text", EmptyStr)

\* -------------------------------------------------------------------- C3

\* C3: a run ends in Exhausted only after exactly maxSteps cycles (one
\* snapshot and one completion request each) and then returns None; a run
\* in which the model never emitted an Answer and nothing was fatal ends in
\* Exhausted.
C3_ExhaustedAfterBudget ==
    /\ pc = "exhausted" =>
          /\ step = maxSteps
          /\ nSnap = maxSteps
          /\ nChat = maxSteps
          /\ IsNone(returned)
    /\ (pc \in Terminal /\ pc # "fatal" /\ AnswerTurns(history) = {}) =>
          pc = "exhausted"
    /\ (pc = "loopend" /\ AnswerTurns(history) = {}) => nChat = maxSteps

\* A run of three steps without an Answer that ended in Exhausted.
C3_Witness ==
    /\ pc = "exhausted"
    /\ maxSteps = 3
    /\ nChat = 3
    /\ AnswerTurns(history) = {}
    /\ IsNone(returned)


\* -------------------------------------------------------------------- C4

\* A reply is malformed when it is no bare JSON value and no stretch of it
\* is a JSON object.
IsObjectText(s) ==
    \/ Len(s) = 2 /\ s[1] = LB /\ s[2] = RB
    \/ Len(s) = 3 /\ s[1] = LB /\ s[2].t = "members" /\ s[3] = RB

Malformed(s) ==
    /\ s \notin {<<NumTok>>, <<NullTok>>}
    /\ \A i \in 1..Len(s) : \A j \in i..Len(s) : ~IsObjectText(SubSeq(s, i, j))

\* C4: _parse_action returns None for every malformed or empty reply, and
\* the loop then skips that step only: no execute_action call, no page
\* call, the page and the history unchanged, no exception, and the loop goes
\* on to the next iteration with the step index advanced by one (or to the
\* end of the loop when the budget is used up).
C4_MalformedSkipsStep ==
    /\ \A s \in SampleReplies : Malformed(s) => ParseAction(s).kind = "none"
    /\ [][(pc = "parse" /\ Malformed(raw)) =>
            /\ action'.kind = "none"
            /\ nExec' = nExec
            /\ nPage' = nPage
            /\ page' = page
            /\ history' = history
            /\ IF step < maxSteps
               THEN pc' = "observe" /\ step' = step + 1
               ELSE pc' = "loopend" /\ step' = step]_vars

\* A step skipped for a malformed reply, with budget left for a next step.
C4_Witness ==
    /\ pc = "observe"
    /\ step >= 2
    /\ Malformed(raw)
    /\ raw # <<>>
    /\ action.kind = "none"
    /\ nExec = 0

\* -------------------------------------------------------------------- C5

\* C5: when execute_action raises, exactly one turn is appended to the
\* history, a user turn naming the action and the cause; the run is not
\* aborted: with budget left the step index advances by one and the next
\* iteration begins; and every completion request issued afterwards holds
\* the failure turns of the history.
C5_FailureFedBack ==
    /\ [][(pc = "execute" /\ faults' = faults + 1) =>
            /\ history' = Append(history,
                   [role |-> "user", kind |-> "error", act |-> Act,
                    cause |-> "raised"])
            /\ ~IsNone(Act)
            /\ pc' # "fatal"
            /\ IF step < maxSteps
               THEN pc' = "observe" /\ step' = step + 1
               ELSE pc' = "loopend" /\ step' = step]_vars
    /\ [][nChat' = nChat + 1 =>
            \A i \in 1..Len(history) :
                history[i].kind = "error" => request'[i + 1] = history[i]]_vars

\* The completion request of the step after a failed action holds the
\* failure turn.
C5_Witness ==
    /\ pc = "parse"
    /\ step >= 2
    /\ step < maxSteps
    /\ \E i \in 1..Len(history) :
          /\ history[i].kind = "error"
          /\ history[i].act = Str("click")
          /\ request[i + 1] = history[i]


\* -------------------------------------------------------------------- C6

\* C6: execute_action returns a value other than None only for an Answer,
\* and then the Answer's text; run_agent returns a value other than None
\* only in Success, when the action of its last step was an Answer, and the
\* value is that Answer's text; once set, the returned value never changes.
C6_ResultOnlyByAnswer ==
    /\ \A d \in SampleActions : \A o \in {"ok", "raise"} :
          LET r == ExecuteAction(InitPage, d, o)
          IN  ~IsNone(r.ret) => IsAnswer(d) /\ r.ret = Get(d, "text", EmptyStr)
    /\ \A d \in BrowserSampleActions : \A o \in {"ok", "raise"} :
          LET r == BrowserExecuteAction(InitPage, d, o)
          IN  ~IsNone(r.ret) => IsAnswer(d) /\ r.ret = Get(d, "text", EmptyStr)
    /\ [](~IsNone(result) => action.kind = "dict" /\ IsAnswer(action.d))
    /\ [](~IsNone(returned) =>
            /\ pc = "success"
            /\ action.kind = "dict"
            /\ IsAnswer(action.d)
            /\ returned = Get(action.d, "text", EmptyStr)
            /\ returned = result)
    /\ [][~IsNone(returned) => returned' = returned]_vars

\* A run that returned the text of an Answer given after a click and a fill.
C6_Witness ==
    /\ pc = "success"
    /\ returned = Str("hi")
    /\ nExec = 3
    /\ nPage = 2
    /\ IsAnswer(action.d)

\* -------------------------------------------------------------------- C7

\* C7: a completion request that fails (only the user turn was appended)
\* takes the run straight to Fatal, without a second request; in Fatal
\* nothing more happens in the run (no snapshot, no completion request, no
\* execute_action call, no page call, no change of history or page), no
\* value is returned, and the exception reaches the caller of /run as an
\* error.
C7_FatalAborts ==
    /\ [][(pc = "decide" /\ Len(history') = Len(history) + 1) =>
            pc' = "fatal" /\ nChat' = nChat + 1]_vars
    /\ [][pc = "fatal" =>
            /\ pc' = "fatal"
            /\ nSnap' = nSnap /\ nChat' = nChat /\ nExec' = nExec
            /\ nPage' = nPage /\ nClose' = nClose
            /\ history' = history /\ page' = page /\ returned' = returned]_vars
    /\ [](pc = "fatal" =>
            /\ IsNone(returned)
            /\ response # NoResponse => response.status = 500)

\* A run whose second completion request failed with budget left, reported
\* to the caller as an error.
C7_Witness ==
    /\ pc = "fatal"
    /\ nChat = 2
    /\ step = 2
    /\ step < maxSteps
    /\ history[Len(history)].kind = "observation"
    /\ response # NoResponse
    /\ response.status = 500

\* -------------------------------------------------------------------- C8

\* The steps a run has left at most: six per remaining iteration, then the
\* end of the loop and the answer of /run.
Rank ==
    CASE pc = "observe" -> 5
      [] pc = "decide" -> 4
      [] pc = "parse" -> 3
      [] pc = "execute" -> 2
      [] pc = "closing" -> 1
      [] OTHER -> 0

Measure ==
    CASE pc = "start" -> (maxSteps + 1) * 6 + 3
      [] pc \in {"observe", "decide", "parse", "execute", "closing"} ->
            (maxSteps - step) * 6 + Rank + 3
      [] pc = "loopend" -> 2
      [] OTHER -> IF response = NoResponse THEN 1 ELSE 0

\* C8: with every collaborator call returning or failing, every run ends and
\* its caller is answered: each step of the run lowers a measure bounded by
\* maxSteps, the answer is given only once the run is in Success, Exhausted
\* or Fatal, and it is given once.
C8_Terminates ==
    /\ <>(response # NoResponse)
    /\ [](Measure >= 0)
    /\ [][Measure' < Measure]_vars
    /\ [](response # NoResponse => pc \in Terminal)
    /\ [][response # NoResponse => response' = response /\ pc' = pc]_vars

\* A run that used its whole budget and whose caller was answered.
C8_Witness ==
    /\ response # NoResponse
    /\ pc = "exhausted"
    /\ maxSteps = MaxStepsBound
    /\ nExec = maxSteps


\* -------------------------------------------------------------------- C9

\* C9 (as claimed): exhaustion is answered with success=false, no result
\* and no error; every other failure populates error; success=true holds
\* exactly when a result is present.
C9_ExhaustionHasNoError ==
    response # NoResponse =>
        LET seen == ClientRunAgent(response)
        IN  /\ pc = "exhausted" =>
                  ~seen.success /\ IsNone(seen.result) /\ IsNone(seen.error)
            /\ pc = "fatal" => ~seen.success /\ ~IsNone(seen.error)
            /\ seen.success <=> ~IsNone(seen.result)

\* C9 (amended): /run answers Success with status 200, success=true, the
\* result and no error; Exhausted with status 200, success=false, no result
\* and the "Reached max steps" message as error; Fatal with status 500,
\* which the Slack client turns into success=false with an error naming the
\* status. success=true holds exactly when a result is present, every
\* failure populates error, and the three answers differ.
C9_OutcomeResponses ==
    response # NoResponse =>
        LET seen == ClientRunAgent(response)
        IN  /\ pc = "success" =>
                  /\ response.status = 200
                  /\ response.success
                  /\ response.result = returned
                  /\ ~IsNone(response.result)
                  /\ IsNone(response.error)
            /\ pc = "exhausted" =>
                  /\ response.status = 200
                  /\ ~response.success
                  /\ IsNone(response.result)
                  /\ response.error = Str("Reached max steps without an answer.")
            /\ pc = "fatal" =>
                  /\ response.status = 500
                  /\ seen.error # Str("Reached max steps without an answer.")
            /\ seen.success <=> ~IsNone(seen.result)
            /\ ~seen.success => ~IsNone(seen.error)

\* An exhausted run of at least one step, answered.
C9_Witness ==
    /\ response # NoResponse
    /\ pc = "exhausted"
    /\ maxSteps >= 1
    /\ nChat = maxSteps
    /\ ~response.success

\* ------------------------------------------------------------------- C10

\* Whether a turn shows a configured secret: in the tree text of an
\* observation, or in the text of an action of a reply.
TurnShowsSecret(turn) ==
    /\ ~IsNone(username)
    /\ \/ /\ turn.kind = "observation"
          /\ \E i \in 1..Len(turn.tree.value) : turn.tree.value[i] = Val(username)
       \/ /\ turn.kind = "reply"
          /\ \E i \in 1..Len(turn.content) :
                /\ turn.content[i].t = "members"
                /\ "text" \in DOMAIN turn.content[i].obj
                /\ ~IsNone(turn.content[i].obj["text"])
                /\ \E j \in 1..Len(Val(turn.content[i].obj["text"])) :
                      Val(turn.content[i].obj["text"])[j] = Val(username)

\* C10: no turn of the history and no message of a completion request ever
\* shows a configured secret, and an execute_action call that does not raise
\* leaves the history as it was.
C10_NoSecretInHistory ==
    /\ [](\A i \in 1..Len(history) : ~TurnShowsSecret(history[i]))
    /\ [](\A i \in 1..Len(request) : ~TurnShowsSecret(request[i]))
    /\ [][(pc = "execute" /\ faults' = faults) => history' = history]_vars

\* With the username configured, a fill with the placeholder was executed
\* and the observation of the next step was sent to the model: the history
\* shows the placeholder in the reply and in the field's value.
C10_Witness ==
    /\ ~IsNone(username)
    /\ pc = "parse"
    /\ step = 2
    /\ nPage = 1
    /\ history[2].content = Obj(TypeUser)
    /\ history[3].kind = "observation"
    /\ history[3].tree.value = <<UsernameToken>>
    /\ request[4] = history[3]

\* ------------------------------------------------------------------- C11

\* The text the claim expects a field to receive: each placeholder replaced
\* by the secret when the secret is configured, and left as it is otherwise.
Substituted(text, user) ==
    [i \in 1..Len(text) |->
        IF text[i] = UsernameToken /\ ~IsNone(user) THEN Val(user) ELSE text[i]]

\* C11 (as claimed): when a fill action is executed, the field receives the
\* action's text with each placeholder replaced by the configured secret,
\* and the literal text when the secret is not configured; an action that
\* is no fill leaves the field as it was.
C11_FillDeliversSecret ==
    [][pc = "execute" =>
          IF Act \in FillTags /\ nPage' = nPage + 1 /\ faults' = faults
          THEN page'.field =
                   Substituted(Val(Get(action.d, "text", EmptyStr)), username)
          ELSE page'.field = page.field]_vars

\* ------------------------------------------------------------------- C12

IsPrefix(a, b) == Len(a) <= Len(b) /\ SubSeq(b, 1, Len(a)) = a

\* C12: every step of a run leaves the history it found as a prefix of the
\* history it leaves (no turn is removed, reordered or rewritten); a _chat
\* call that returns has appended exactly two turns, the user turn with the
\* observation and then the assistant turn with the reply handed to the
\* loop; no other step appends two turns, and a _chat call that raises has
\* appended the user turn only and ends the run.
C12_HistoryAppendOnly ==
    /\ [][IsPrefix(history, history')]_vars
    /\ [][(pc = "decide" /\ pc' = "parse") =>
            /\ history' = history \o
                   << [role |-> "user", kind |-> "observation",
                       url |-> page.url, tree |-> treeText],
                      [role |-> "assistant", kind |-> "reply",
                       content |-> raw'] >>
            /\ nChat' = nChat + 1]_vars
    /\ [][Len(history') <= Len(history) + 2]_vars
    /\ [][Len(history') = Len(history) + 2 => pc = "decide" /\ pc' = "parse"]_vars
    /\ [][(pc = "decide" /\ pc' # "parse") =>
            Len(history') = Len(history) + 1 /\ pc' = "fatal"]_vars

\* The second _chat call of a run returned, after a first step whose action
\* failed: the history holds the two turns of the first call, the failure
\* turn and the two turns of the second call.
C12_Witness ==
    /\ pc = "parse"
    /\ nChat = 2
    /\ Len(history) = 5
    /\ history[1].kind = "observation"
    /\ history[2].kind = "reply"
    /\ history[3].kind = "error"
    /\ history[4].kind = "observation"
    /\ history[5] = [role |-> "assistant", kind |-> "reply", content |-> raw]
    /\ raw = Obj(ClickGo)

\* ------------------------------------------------------------------- C13

\* C13 (as claimed): whenever the run loop is about to take a snapshot, the
\* last page interaction of execute_action (if there was one since the
\* previous snapshot) was followed by the network-idle wait and the fixed
\* delay, whether execute_action returned or raised.
C13_SettledBeforeSnapshot ==
    pc = "observe" => settle \in {"none", "idle_delay"}

\* ------------------------------------------------------------------- C14

\* The lookup the priority RoleName > Text > Label > Placeholder gives a
\* descriptor with the keys ks.
LookupByPriority(ks) ==
    CASE {"role", "name"} \subseteq ks -> "get_by_role"
      [] ~({"role", "name"} \subseteq ks) /\ "text" \in ks -> "get_by_text"
      [] ~({"role", "name"} \subseteq ks) /\ "text" \notin ks /\ "label" \in ks ->
            "get_by_label"
      [] ~({"role", "name"} \subseteq ks) /\ {"text", "label"} \cap ks = {}
            /\ "placeholder" \in ks -> "get_by_placeholder"
      [] OTHER -> "ValueError"

\* C14: _resolve_locator gives every descriptor exactly one outcome, the one
\* the priority RoleName > Text > Label > Placeholder gives the keys it
\* carries: a descriptor with role, name and text resolves by role and name
\* whatever other keys it has. A click or a fill of browser.py's executor
\* looks its element up by that same lookup.
C14_ResolutionPriority ==
    /\ call.fn = "resolve" =>
          /\ call.out = LookupByPriority(DOMAIN call.arg)
          /\ {"role", "name", "text"} \subseteq DOMAIN call.arg =>
                call.out = "get_by_role"
    /\ (call.fn = "browser_execute" /\ call.out.lookup # "none") =>
          call.out.lookup = LookupByPriority(DOMAIN call.arg.target)

\* A descriptor with all the keys was resolved, by role and name.
C14_Witness ==
    /\ call.fn = "resolve"
    /\ DOMAIN call.arg = TargetKeys
    /\ call.out = "get_by_role"

\* ------------------------------------------------------------------- C15

\* The keys an element is located by.
LocatingKeys == {"role", "name", "text", "label", "placeholder"}

\* C15 (as claimed): an action that locates an element and whose target has
\* none of the four shapes makes the executor raise before any call of the
\* page, the page being left as it was (the run loop then feeds the failure
\* back). Stated of both executors: browser.py's, whose target is the
\* descriptor under "target", and gurney.py's, the one the run loop calls,
\* whose target is the locating keys of the action itself.
C15_InvalidTargetFailsEarly ==
    /\ ( /\ call.fn = "browser_execute"
         /\ Get(call.arg, "action", NoneV) \in {Str("click"), Str("fill")}
         /\ LookupByPriority(DOMAIN Get(call.arg, "target", EmptyObj))
                = "ValueError" ) =>
          call.out.raised /\ call.out.calls = 0 /\ call.out.page = call.before
    /\ ( /\ call.fn = "execute"
         /\ Get(call.arg, "action", NoneV) \in LocatingTags
         /\ DOMAIN call.arg \cap LocatingKeys = {} ) =>
          call.out.raised /\ call.out.calls = 0 /\ call.out.page = call.before

\* ------------------------------------------------------------------- C16

\* The places of a reply where a well-formed action object begins.
ActionObjectsIn(s) ==
    { i \in 1..(Len(s) - 2) :
        s[i] = LB /\ s[i + 1].t = "members" /\ s[i + 2] = RB }

\* C16 (as claimed): for every reply that holds exactly one well-formed
\* action object, whatever prose or brace characters surround it,
\* _parse_action returns that action.
C16_RecoversSingleAction ==
    (call.fn = "parse" /\ Cardinality(ActionObjectsIn(call.arg)) = 1) =>
        \A i \in ActionObjectsIn(call.arg) :
            call.out = [kind |-> "dict", d |-> call.arg[i + 1].obj]

\* ------------------------------------------------------------------- C17

\* The claim's fixed maximum of a wait, in seconds: the sample of waits
\* holds a longer one.
WaitCap == MaxSeconds - 1

\* C17 (as claimed): a wait action pauses for the seconds it asks for
\* clamped to the maximum, min(seconds, MAX), so never for longer than MAX.
C17_WaitClamped ==
    ( /\ call.fn = "execute"
      /\ Get(call.arg, "action", NoneV) = Str("wait")
      /\ ~call.out.raised ) =>
        LET seconds == Val(Get(call.arg, "seconds", Some(2)))
        IN  /\ call.out.pause =
                  (IF seconds < WaitCap THEN seconds ELSE WaitCap) * 1000
            /\ call.out.pause <= WaitCap * 1000

\* ------------------------------------------------------------------- C18

\* The tags gurney.py's executor has a branch for.
RecognizedTags ==
    { Str("answer"), Str("click"), Str("click_text"), Str("type"),
      Str("fill_label"), Str("fill_placeholder"), Str("navigate"),
      Str("scroll"), Str("wait") }

\* C18: when the action of a step has a tag the executor does not know,
\* execute_action is called and does nothing: no page call, the page as it
\* was, no result, no exception and so no failure turn, the history as it
\* was; the loop goes on to the next iteration, the step being used up (or
\* to the end of the loop when it was the last). browser.py's executor
\* likewise looks no element up, leaves the page as it was, returns None and
\* raises nothing for such an action.
C18_UnknownTagNoOp ==
    /\ [][(pc = "execute" /\ Act \notin RecognizedTags) =>
            /\ nExec' = nExec + 1
            /\ nPage' = nPage
            /\ page' = page
            /\ IsNone(result')
            /\ history' = history
            /\ faults' = faults
            /\ nClose' = nClose
            /\ IF step < maxSteps
               THEN pc' = "observe" /\ step' = step + 1
               ELSE pc' = "loopend" /\ step' = step]_vars
    /\ []((pc = "execute" /\ Act \notin RecognizedTags) =>
            \A outcome \in {"ok", "raise"} :
                LET r == BrowserExecuteAction(page, action.d, outcome)
                IN  /\ ~r.raised
                    /\ r.lookup = "none"
                    /\ r.page = page
                    /\ IsNone(r.ret))

\* The first step of a run had an action with an unknown tag, and the second
\* step has begun with nothing executed on the page and no failure turn.
C18_Witness ==
    /\ pc = "observe"
    /\ step = 2
    /\ action.kind = "dict"
    /\ action.d = Hover
    /\ nExec = 1
    /\ nPage = 0
    /\ Len(history) = 2
    /\ page = InitPage

\* ------------------------------------------------------------------- C19

Started(r) == sessions[r].pc # "new"

\* What run r can see of the state: its locals, the turns of its agent's
\* history and its page.
ViewOf(r, ss, ls, ps) ==
    IF ss[r].pc = "new" THEN << ss[r] >>
    ELSE << ss[r], ls[ss[r].history], ps[ss[r].page] >>

\* C19: concurrent runs have each their own history list and their own
\* page; every turn of a run's history and of its completion requests was
\* made by that run (or is the system turn), the step counter of a run
\* counts its own steps only; and a step of one run changes nothing another
\* run can see, so no run's outcome depends on another's steps.
C19_RunsShareNothing ==
    /\ [](\A r \in Runs : \A q \in Runs \ {r} :
            (Started(r) /\ Started(q)) =>
                /\ sessions[r].history # sessions[q].history
                /\ sessions[r].page # sessions[q].page)
    /\ [](\A r \in Runs : Started(r) =>
            LET h == heapLists[sessions[r].history]
                req == sessions[r].request
            IN  /\ \A i \in 1..Len(h) : h[i].run = r
                /\ \A i \in 2..Len(req) : req[i].run = r
                /\ Len(h) <= 3 * sessions[r].step
                /\ Cardinality({i \in 1..Len(h) : h[i].kind = "reply"})
                      = IF sessions[r].pc \in {"observe", "decide"}
                        THEN sessions[r].step - 1 ELSE sessions[r].step)
    /\ [][\A r \in Runs :
            ViewOf(r, sessions', heapLists', heapPages')
                # ViewOf(r, sessions, heapLists, heapPages)
            => \A q \in Runs \ {r} :
                  ViewOf(q, sessions', heapLists', heapPages')
                      = ViewOf(q, sessions, heapLists, heapPages)]_vars

\* Two runs in flight, interleaved: each is in its second step, the first
\* has a failure turn in its history and the second has filled its page.
C19_Witness ==
    /\ sessions[1].pc = "execute"
    /\ sessions[2].pc = "decide"
    /\ sessions[1].step = 2
    /\ sessions[2].step = 2
    /\ Len(heapLists[sessions[1].history]) = 5
    /\ heapLists[sessions[1].history][3].kind = "error"
    /\ Len(heapLists[sessions[2].history]) = 2
    /\ heapPages[sessions[1].page].field = <<>>
    /\ heapPages[sessions[2].page].field = <<"typed">>

\* ------------------------------------------------------------------- C20

\* C20: the history holds user and assistant turns only; every completion
\* request is one system turn, the fixed instructions, followed by the whole
\* history as it is when the request is issued (the turns before the call
\* and the user turn of the call), in order, and holds no other system turn.
C20_SystemTurnNotPersisted ==
    /\ [](\A i \in 1..Len(history) : history[i].role \in {"user", "assistant"})
    /\ [](request # <<>> =>
            /\ request[1] = [role |-> "system", kind |-> "prompt"]
            /\ \A i \in 2..Len(request) : request[i].role # "system")
    /\ [][nChat' = nChat + 1 =>
            /\ Len(request') = Len(history) + 2
            /\ \A i \in 1..Len(history) : request'[i + 1] = history[i]
            /\ request'[Len(history) + 2] = history'[Len(history) + 1]
            /\ request'[Len(history) + 2].kind = "observation"]_vars

\* The second completion request of a run: the system turn and the three
\* turns of the history, the reply to it being the fourth.
C20_Witness ==
    /\ pc = "parse"
    /\ nChat = 2
    /\ Len(history) = 4
    /\ Len(request) = 4
    /\ request[1].role = "system"
    /\ request[2] = history[1]
    /\ request[4] = history[3]

\* ------------------------------------------------------------------- C21

\* The operations of the current step that have been done, read off the
\* counters: the step's snapshot, its completion request.
SnapshotDone == nSnap = step
ChatDone == nChat = step

\* C21: within every step the operations occur in the order snapshot,
\* completion request, parse, execute. A step begins in Observing (the
\* first operation of the loop and of every later step is the snapshot);
\* each step has exactly one snapshot before its only completion request,
\* the parse follows the request, at most one execute_action call follows
\* the parse, and no snapshot is taken once the step's request is made.
C21_StepOrder ==
    /\ [](/\ nSnap <= step /\ nChat <= nSnap /\ nExec <= nChat
          /\ (pc = "observe" => nSnap = step - 1 /\ nChat = step - 1)
          /\ (pc = "decide" => SnapshotDone /\ nChat = step - 1)
          /\ (pc \in {"parse", "execute", "closing"} =>
                  SnapshotDone /\ ChatDone))
    /\ [][step' # step => step' = step + 1 /\ pc' = "observe"]_vars
    /\ [][nSnap' # nSnap =>
             /\ nSnap' = nSnap + 1
             /\ pc = "observe" /\ pc' = "decide"
             /\ nChat = step - 1 /\ step' = step]_vars
    /\ [][nChat' # nChat =>
             /\ nChat' = nChat + 1
             /\ pc = "decide" /\ pc' \in {"parse", "fatal"}
             /\ SnapshotDone /\ nChat = step - 1 /\ step' = step]_vars
    /\ [][action' # action /\ pc = "parse" =>
             /\ SnapshotDone /\ ChatDone
             /\ nSnap' = nSnap /\ nChat' = nChat /\ nExec' = nExec]_vars
    /\ [][nExec' # nExec =>
             /\ nExec' = nExec + 1
             /\ pc = "execute" /\ pc' # "execute"
             /\ SnapshotDone /\ ChatDone
             /\ nSnap' = nSnap /\ nChat' = nChat
             /\ pc' \notin {"decide", "parse"}
             /\ (pc' = "observe" => step' = step + 1)]_vars

\* The second step is about to execute its action after the first step ran
\* all four operations: two snapshots, two requests, one executed action.
C21_Witness ==
    /\ pc = "execute"
    /\ step = 2
    /\ nSnap = 2
    /\ nChat = 2
    /\ nExec = 1

\* ------------------------------------------------------------------- C22

\* C22: every value _parse_action hands to the run loop is None or a JSON
\* object; a reply that decodes to JSON of another kind is handled as a
\* parse failure (None, the step skipped) and never makes the loop's
\* action.get raise, which would leave run_agent as an exception.
C22_OnlyObjectsReachLoop ==
    /\ action.kind \in {"unset", "none", "dict"}
    /\ (action.kind # "unset" /\ JsonLoads(raw).kind = "other") =>
           /\ action.kind = "none"
           /\ pc # "fatal"
           /\ nExec < step

\* ------------------------------------------------------------------- C23

\* The snapshot of the current step failed: the observation is the error
\* text.
SnapshotFailed == pc \in {"decide", "parse"} /\ treeText = SnapshotErrorText

\* C23: a failure while obtaining the snapshot does not abort the run. The
\* step that fails to snapshot goes on to its completion request with the
\* error text as the observation and no exception leaves the loop; the
\* request is issued for that same step with the error text in its
\* observation turn; and the step is counted: it is not repeated, so the
\* snapshots never outnumber the steps nor the budget.
C23_SnapshotFailureContinues ==
    /\ [][pc = "observe" =>
             /\ pc' = "decide"
             /\ step' = step
             /\ history' = history
             /\ nSnap' = nSnap + 1
             /\ treeText' \in {FormatA11yTree(page), SnapshotErrorText}
             /\ (faults' # faults => treeText' = SnapshotErrorText)]_vars
    /\ [][(pc = "decide" /\ SnapshotFailed) =>
             /\ nChat' = nChat + 1
             /\ step' = step
             /\ request'[Len(request')]
                    = ObservationTurn(page.url, SnapshotErrorText)]_vars
    /\ []((pc = "parse" /\ SnapshotFailed) =>
             /\ nChat = step
             /\ history[Len(history) - 1]
                    = ObservationTurn(page.url, SnapshotErrorText))
    /\ [](nSnap <= step /\ step <= maxSteps)

\* The first step's snapshot failed; its request was made with the error
\* text, the step was counted and the run is in its second step.
C23_Witness ==
    /\ pc = "decide"
    /\ step = 2
    /\ nSnap = 2
    /\ nChat = 1
    /\ faults = 1
    /\ treeText.kind = "tree"
    /\ history[1] = ObservationTurn(InitPage.url, SnapshotErrorText)

\* ------------------------------------------------------------------- C24

\* The text ends with the truncation marker.
EndsWithMarker(text) ==
    /\ Len(text) >= Len(TruncationMarker)
    /\ SubSeq(text, Len(text) - Len(TruncationMarker) + 1, Len(text))
           = TruncationMarker

\* C24: truncation keeps the head and is bounded. A snapshot text of at
\* most MAX_SNAPSHOT_CHARS characters is handed on unchanged; a longer one
\* becomes its first MAX_SNAPSHOT_CHARS characters followed by the marker.
\* The result is never longer than MAX_SNAPSHOT_CHARS plus the marker, its
\* part before the marker is a prefix of the text, and it ends with the
\* marker exactly when characters were dropped.
C24_TruncationBounded ==
    call.fn = "get_snapshot" =>
        LET text == call.arg
            out == call.out
            dropped == Len(text) > MAX_SNAPSHOT_CHARS
            kept == IF EndsWithMarker(out)
                    THEN SubSeq(out, 1, Len(out) - Len(TruncationMarker))
                    ELSE out
        IN  /\ ~dropped => out = text
            /\ dropped => out = SubSeq(text, 1, MAX_SNAPSHOT_CHARS)
                                   \o TruncationMarker
            /\ Len(out) <= MAX_SNAPSHOT_CHARS + Len(TruncationMarker)
            /\ IsPrefix(kept, text)
            /\ EndsWithMarker(out) <=> dropped
            /\ dropped <=> Len(kept) < Len(text)

\* A text one character longer than the limit has been cut: its last
\* character is gone and the marker is in its place.
C24_Witness ==
    /\ call.fn = "get_snapshot"
    /\ Len(call.arg) = MAX_SNAPSHOT_CHARS + 1
    /\ Len(call.out) = MAX_SNAPSHOT_CHARS + Len(TruncationMarker)
    /\ call.out[MAX_SNAPSHOT_CHARS] = "a"
    /\ call.out[MAX_SNAPSHOT_CHARS + 1] = "\n"
    /\ call.out[1] = "["

\* ------------------------------------------------------------------- C25

\* C25: on every outcome run_agent hands to its caller the browser has been
\* released, by browser.close() on Success and on Exhausted and by leaving
\* the async_playwright context on Fatal; browser.close() is called at most
\* once in a run, and once it has been called nothing but the delivery of
\* the outcome follows: no snapshot, no completion request and no page
\* interaction.
C25_ReleasedOnceBeforeOutcome ==
    /\ nClose <= 1
    /\ pc \in {"success", "exhausted"} => nClose = 1
    /\ nClose >= 1 => pc \in Terminal

\* ------------------------------------------------------------------- C26

\* The kinds of the message that reports the outcome of a request.
OutcomeKinds == {"result", "failed", "call_error"}

\* What has been posted and called fits the place the handler is at: the
\* 'running' message precedes the one call of the Gurney API, and the one
\* outcome message follows it; an empty prompt gets the warning alone; an
\* ignored event gets nothing.
SlackAnswerShape ==
    /\ apiCalls <= 1
    /\ slackPc \in {"idle", "ignored", "process"} =>
           posts = <<>> /\ apiCalls = 0
    /\ slackPc = "calling" =>
           prompt # <<>> /\ posts = <<RunningMsg(prompt)>> /\ apiCalls = 0
    /\ slackPc \in {"reporting", "handling"} =>
           prompt # <<>> /\ posts = <<RunningMsg(prompt)>> /\ apiCalls = 1
    /\ (slackPc = "done" /\ prompt # <<>>) =>
           /\ Len(posts) = 2
           /\ posts[1] = RunningMsg(prompt)
           /\ posts[2].kind \in OutcomeKinds
           /\ apiCalls = 1
           /\ (posts[2].kind = "result" =>
                   apiResult.kind = "returned" /\ apiResult.value.success)
           /\ (posts[2].kind = "failed" =>
                   apiResult.kind = "returned" /\ ~apiResult.value.success)
    /\ (slackPc = "done" /\ prompt = <<>>) =>
           posts = <<WarningMsg>> /\ apiCalls = 0

\* The direct-message handler goes on only for an 'im' message without
\* bot_id and without subtype.
DmFilter ==
    (slackEvent.handler = "dm" /\ slackPc # "ignored") =>
        /\ slackEvent.event.channel_type = Str("im")
        /\ IsNone(slackEvent.event.bot_id)
        /\ IsNone(slackEvent.event.subtype)

\* C26 (as claimed): _process_prompt answers every request with a definite
\* outcome and no exception leaves it: one 'running' message, one call of
\* the Gurney API and one outcome message for a non-empty prompt, one
\* warning and no call for an empty one; the direct-message handler goes on
\* only for an 'im' message with no bot_id and no subtype.
C26_DefiniteOutcome ==
    /\ slackPc # "escaped"
    /\ SlackAnswerShape
    /\ DmFilter

\* C26 (amended): the same, except that an exception of a say call outside
\* the try leaves _process_prompt: the say of the warning or of the
\* 'running' message (nothing is posted and the API is not called) and the
\* say of the except clause (the 'running' message and the call are done,
\* no outcome message is posted). Exceptions of the API call and of the say
\* that posts the result or the agent's failure are caught and answered by
\* the call-error message. Without a say that raises, no exception leaves.
C26_OutcomeUnlessSayRaises ==
    /\ SlackAnswerShape
    /\ DmFilter
    /\ slackPc = "escaped" =>
           /\ sayFaults >= 1
           /\ \/ posts = <<>> /\ apiCalls = 0
              \/ /\ posts = <<RunningMsg(prompt)>>
                 /\ apiCalls = 1
                 /\ (apiResult.kind = "returned" => sayFaults >= 2)

\* A direct message "go" answered: the 'running' message, one call, which
\* /run answered with a result, and the result posted.
C26_Witness ==
    /\ slackPc = "done"
    /\ slackEvent.handler = "dm"
    /\ prompt = <<WordTok>>
    /\ apiCalls = 1
    /\ posts = << RunningMsg(<<WordTok>>), ResultMsg(Str("hi")) >>
    /\ sayFaults = 0

====
